---------------------------- MODULE Spec2Model ----------------------------
(***************************************************************************)
(* A model of src/HighLevelAnalyzer.py: the PS2 controller high level      *)
(* analyzer for Saleae Logic.  The class Hla receives the frames of the    *)
(* SPI analyzer one at a time through decode(): an 'enable' frame opens a  *)
(* transaction, each 'result' frame carries one console (mosi) byte and    *)
(* one device (miso) byte, and a 'disable' frame closes the transaction    *)
(* and may return one annotation.                                          *)
(*                                                                         *)
(* Conventions.                                                            *)
(*  - Python's None is the value None (-1), which is no byte (0..255) and  *)
(*    no timestamp (1..MaxTime).  Timestamps are saleae GraphTime objects: *)
(*    opaque and always truthy, so "if self.current_frame_start_time"      *)
(*    tests for "is not None".                                             *)
(*  - A Python call either returns a value or raises.  A detail generator  *)
(*    yields [ok |-> TRUE, val |-> string] or Raise; decode yields         *)
(*    ReturnNone, a frame, or DecodeRaised.                                *)
(*  - Python lists are 0-based, sequences are 1-based: l[i] is l[i + 1],   *)
(*    and raises IndexError unless i < Len(l).                             *)
(*  - The last four button names are the glyphs U+1F53A, U+26AA, U+2716    *)
(*    and U+2B1B in the source; they are spelled Triangle, Circle, Cross   *)
(*    and Square here, the module being ASCII.  The glyphs of the format   *)
(*    string "result_types" are not modelled: the host applies it.         *)
(***************************************************************************)
EXTENDS Integers, Sequences, FiniteSets, TLC

\* ------------------------------------------------------------------ bounds

\* The longest run of byte pairs the host delivers between two start markers.
MaxLen == 5

\* Timestamps are 1..MaxTime.
MaxTime == 2

\* ------------------------------------------------------------- Python values

None == -1

Raise == [ok |-> FALSE, val |-> ""]

Return(s) == [ok |-> TRUE, val |-> s]

\* l[i] is defined (no IndexError).
InRange(l, i) == i < Len(l)

\* l[i], for InRange(l, i).
Get(l, i) == l[i + 1]

\* str(b) for a bool, as '%s' % b prints it.
PyBool(b) == IF b THEN "True" ELSE "False"

HexDigits == <<"0", "1", "2", "3", "4", "5", "6", "7",
               "8", "9", "A", "B", "C", "D", "E", "F">>

\* '%02X' % n for a byte n.
Hex02(n) == HexDigits[(n \div 16) + 1] \o HexDigits[(n % 16) + 1]

\* a & b on naturals.
RECURSIVE BitAnd(_, _)
BitAnd(a, b) ==
    IF a = 0 \/ b = 0 THEN 0
    ELSE (IF a % 2 = 1 /\ b % 2 = 1 THEN 1 ELSE 0) + 2 * BitAnd(a \div 2, b \div 2)

\* 1 << n
ShiftLeft1(n) == 2 ^ n

\* sep.join(l)
RECURSIVE Join(_, _)
Join(sep, l) ==
    IF Len(l) = 0 THEN ""
    ELSE IF Len(l) = 1 THEN l[1]
    ELSE l[1] \o sep \o Join(sep, Tail(l))

\* ------------------------------------------------------- detail generators

DIGITAL_BUTTONS ==
    <<"Select", "L3", "R3", "Start", "D-Up", "D-Right", "D-Down", "D-Left",
      "L2", "R2", "L1", "R1", "Triangle", "Circle", "Cross", "Square">>

command_empty_details(command_bytes, data_bytes) == Return("")

data_empty_details(command_bytes, data_bytes) == Return("(...)")

\* A bug cmd42_command_details could have: "> 0x40" for ">= 0x40".
cmd42_command_details_large_above(command_bytes, data_bytes) ==
    IF ~InRange(command_bytes, 3) THEN Raise
    ELSE IF Get(command_bytes, 3) = 0 /\ ~InRange(command_bytes, 4) THEN Raise
    ELSE IF Get(command_bytes, 3) # 0 \/ Get(command_bytes, 4) # 0
    THEN IF ~InRange(command_bytes, 4) THEN Raise
         ELSE Return("Small Motor " \o PyBool(Get(command_bytes, 3) = 255)
                     \o ", Large Motor " \o PyBool(Get(command_bytes, 4) > 64))
    ELSE Return("")

\* "if command_bytes[3] or command_bytes[4]" reads [3], and reads [4] only
\* when [3] is zero; the body of the if reads both.
cmd42_command_details(command_bytes, data_bytes) ==
    IF ~InRange(command_bytes, 3) THEN Raise
    ELSE IF Get(command_bytes, 3) = 0 /\ ~InRange(command_bytes, 4) THEN Raise
    ELSE IF Get(command_bytes, 3) # 0 \/ Get(command_bytes, 4) # 0
    THEN IF ~InRange(command_bytes, 4) THEN Raise
         ELSE LET small_motor_mapping == Get(command_bytes, 3)
                  large_motor_mapping == Get(command_bytes, 4)
              IN  Return("Small Motor " \o PyBool(small_motor_mapping = 255)
                         \o ", Large Motor " \o PyBool(large_motor_mapping >= 64))
    ELSE Return("")

\* A bug cmd42_data_details could have: the two mask bytes taken in the other
\* order (bits 0-7 from byte 4, bits 8-15 from byte 3).
RECURSIVE cmd42_button_loop_bytes_swapped(_, _, _)
cmd42_button_loop_bytes_swapped(data_bytes, bi, digital_buttons) ==
    IF bi = 16
    THEN IF Len(digital_buttons) # 0
         THEN Return(Join(", ", digital_buttons))
         ELSE Return("(no buttons)")
    ELSE LET byte_number == IF bi < 8 THEN 4 ELSE 3
         IN  IF ~InRange(data_bytes, byte_number) THEN Raise
             ELSE cmd42_button_loop_bytes_swapped(
                      data_bytes, bi + 1,
                      IF BitAnd(Get(data_bytes, byte_number), ShiftLeft1(bi % 8)) = 0
                      THEN Append(digital_buttons,
                                  <<"Select", "L3", "R3", "Start", "D-Up", "D-Right",
                                    "D-Down", "D-Left", "L2", "R2", "L1", "R1",
                                    "Triangle", "Circle", "Cross", "Square">>[bi + 1])
                      ELSE digital_buttons)

cmd42_data_details_bytes_swapped(command_bytes, data_bytes) ==
    cmd42_button_loop_bytes_swapped(data_bytes, 0, <<>>)

\* The loop "for bi, button_name in enumerate(DIGITAL_BUTTONS)", from
\* iteration bi with the buttons collected so far.
RECURSIVE cmd42_button_loop(_, _, _)
cmd42_button_loop(data_bytes, bi, digital_buttons) ==
    IF bi = Len(DIGITAL_BUTTONS)
    THEN IF Len(digital_buttons) # 0
         THEN Return(Join(", ", digital_buttons))
         ELSE Return("(no buttons)")
    ELSE LET byte_number == IF bi < 8 THEN 3 ELSE 4
             bit_number  == bi % 8
         IN  IF ~InRange(data_bytes, byte_number) THEN Raise
             ELSE LET digital_byte == Get(data_bytes, byte_number)
                  IN  cmd42_button_loop(
                          data_bytes, bi + 1,
                          IF BitAnd(digital_byte, ShiftLeft1(bit_number)) = 0
                          THEN Append(digital_buttons, DIGITAL_BUTTONS[bi + 1])
                          ELSE digital_buttons)

cmd42_data_details(command_bytes, data_bytes) ==
    cmd42_button_loop(data_bytes, 0, <<>>)

cmd43_command_details(command_bytes, data_bytes) ==
    IF ~InRange(command_bytes, 3) THEN Raise
    ELSE Return(IF Get(command_bytes, 3) = 1 THEN "Enter" ELSE "Exit")

\* A bug cmd43_data_details could have: the configuration mode looked for in
\* the header's reply (index 0) instead of the mode byte (index 1).
cmd43_data_details_mode_at_0(command_bytes, data_bytes) ==
    IF ~InRange(data_bytes, 0) THEN Raise
    ELSE IF Get(data_bytes, 0) = 243 THEN Return("(no data)")
    ELSE cmd42_button_loop(data_bytes, 0, <<>>)

cmd43_data_details(command_bytes, data_bytes) ==
    IF ~InRange(data_bytes, 1) THEN Raise
    ELSE IF Get(data_bytes, 1) = 243 THEN Return("(no data)")
    ELSE cmd42_data_details(command_bytes, data_bytes)

\* A bug cmd44_command_details could have: the lock read from byte 3.
cmd44_command_details_lock_at_3(command_bytes, data_bytes) ==
    IF ~InRange(command_bytes, 3) \/ ~InRange(command_bytes, 4) THEN Raise
    ELSE Return("Set " \o (IF Get(command_bytes, 3) = 1 THEN "Analog" ELSE "Digital")
                \o (IF Get(command_bytes, 3) = 3 THEN " (Locked)" ELSE ""))

cmd44_command_details(command_bytes, data_bytes) ==
    IF ~InRange(command_bytes, 3) \/ ~InRange(command_bytes, 4) THEN Raise
    ELSE LET is_analog     == Get(command_bytes, 3) = 1
             is_locked     == Get(command_bytes, 4) = 3
             mode_string   == IF is_analog THEN "Analog" ELSE "Digital"
             locked_string == IF is_locked THEN " (Locked)" ELSE ""
         IN  Return("Set " \o mode_string \o locked_string)

cmd46_command_details(command_bytes, data_bytes) ==
    IF ~InRange(command_bytes, 3) THEN Raise
    ELSE LET offset == Get(command_bytes, 3)
         IN  IF offset = 0 THEN Return("First Byte")
             ELSE IF offset = 1 THEN Return("Second Byte")
             ELSE Return("Unknown Byte")

cmd4c_command_details(command_bytes, data_bytes) ==
    cmd46_command_details(command_bytes, data_bytes)

cmd4d_command_details(command_bytes, data_bytes) ==
    IF ~InRange(command_bytes, 3) \/ ~InRange(command_bytes, 4) THEN Raise
    ELSE LET small_mapping == Get(command_bytes, 3)
             large_mapping == Get(command_bytes, 4)
             details == << (IF small_mapping = 0 THEN "Map" ELSE "Unmap") \o " Small",
                           (IF large_mapping = 1 THEN "Map" ELSE "Unmap") \o " Large" >>
         IN  Return(Join(", ", details))

\* ------------------------------------------------------------------ tables

CommandMetadata(id, name, command_details_generator, data_details_generator) ==
    [id |-> id, name |-> name,
     command_details_generator |-> command_details_generator,
     data_details_generator |-> data_details_generator]

\* The generators are function references in the source; here each is named
\* and CallGenerator applies the one named.
COMMAND_METADATA ==
    (64 :> CommandMetadata(64, "Initialize Pressure Sensors", "command_empty_details", "data_empty_details")) @@
    (65 :> CommandMetadata(65, "Button Inclusions",           "command_empty_details", "data_empty_details")) @@
    (66 :> CommandMetadata(66, "Main Polling",                "cmd42_command_details", "cmd42_data_details")) @@
    (67 :> CommandMetadata(67, "Enter/Exit Config Mode",      "cmd43_command_details", "cmd43_data_details")) @@
    (68 :> CommandMetadata(68, "Switch Analog/Digital Mode",  "cmd44_command_details", "data_empty_details")) @@
    (69 :> CommandMetadata(69, "Get Status Info",             "command_empty_details", "data_empty_details")) @@
    (70 :> CommandMetadata(70, "Device Descriptor",           "cmd46_command_details", "data_empty_details")) @@
    (71 :> CommandMetadata(71, "Device Descriptor",           "command_empty_details", "data_empty_details")) @@
    (76 :> CommandMetadata(76, "Device Descriptor",           "cmd4c_command_details", "data_empty_details")) @@
    (77 :> CommandMetadata(77, "Map Rumble Motors",           "cmd4d_command_details", "data_empty_details")) @@
    (79 :> CommandMetadata(79, "Configure Analog Response",   "command_empty_details", "data_empty_details"))

CallGenerator(generator, command_bytes, data_bytes) ==
    CASE generator = "command_empty_details" -> command_empty_details(command_bytes, data_bytes)
      [] generator = "data_empty_details"    -> data_empty_details(command_bytes, data_bytes)
      [] generator = "cmd42_command_details" -> cmd42_command_details(command_bytes, data_bytes)
      [] generator = "cmd42_data_details"    -> cmd42_data_details(command_bytes, data_bytes)
      [] generator = "cmd43_command_details" -> cmd43_command_details(command_bytes, data_bytes)
      [] generator = "cmd43_data_details"    -> cmd43_data_details(command_bytes, data_bytes)
      [] generator = "cmd44_command_details" -> cmd44_command_details(command_bytes, data_bytes)
      [] generator = "cmd46_command_details" -> cmd46_command_details(command_bytes, data_bytes)
      [] generator = "cmd4c_command_details" -> cmd4c_command_details(command_bytes, data_bytes)
      [] generator = "cmd4d_command_details" -> cmd4d_command_details(command_bytes, data_bytes)

MODE_NAMES ==
    (65 :> "Digital") @@ (115 :> "Analog") @@
    (121 :> "Analog with Pressure") @@ (243 :> "Configuration")

\* A bug the mode lookup could have: no default, an unknown mode giving no
\* label at all.
ModeNamesGet_no_default(mode) ==
    IF mode \in DOMAIN MODE_NAMES THEN MODE_NAMES[mode] ELSE ""

\* MODE_NAMES.get(mode, 'Unknown Mode')
ModeNamesGet(mode) ==
    IF mode \in DOMAIN MODE_NAMES THEN MODE_NAMES[mode] ELSE "Unknown Mode"


\* ------------------------------------------------------------- class Hla

VARIABLES
    current_frame_type,           \* "None", "invalid-packet", "invalid-command", "valid-command"
    current_frame_start_time,     \* None or the timestamp of the last 'enable' frame
    current_frame_command_id,     \* None or the console byte at index 1
    current_controller_mode,      \* None or the device byte at index 1
    current_frame_command_bytes,  \* the console bytes accumulated
    current_frame_data_bytes,     \* the device bytes accumulated
    current_frame_index,          \* the number of the next byte pair
    returned,                     \* what the last call of decode gave the host
    \* The history of the frames delivered, which the analyzer does not hold:
    h_event,       \* the type of the last frame delivered ("init" before any)
    h_started,     \* an 'enable' frame has been delivered
    h_abandoned,   \* the last 'enable' frame cut a transaction short: byte pairs
                   \* had come since an earlier 'enable', and no 'disable'
    h_ended_before,\* a 'disable' frame had been delivered since the last 'enable'
                   \* (or since construction) when the last frame arrived
    h_end_time,    \* the end_time of the last frame, if a 'disable' frame (else None)
    h_start_time,  \* the start_time of the last 'enable' frame (None before any)
    h_out,         \* the console bytes delivered since the last 'enable'
    h_in           \* the device bytes delivered since the last 'enable'

hla == <<current_frame_type, current_frame_start_time, current_frame_command_id,
         current_controller_mode, current_frame_command_bytes,
         current_frame_data_bytes, current_frame_index>>

history == <<h_event, h_started, h_abandoned, h_ended_before, h_start_time, h_end_time, h_out, h_in>>

vars == <<hla, returned, history>>

\* What decode gives the host: None, an AnalyzerFrame, or an exception.
ReturnNone == [kind |-> "None"]

DecodeRaised == [kind |-> "raise"]

AnalyzerFrame(type, start_time, end_time, data) ==
    [kind |-> "AnalyzerFrame", type |-> type, start_time |-> start_time,
     end_time |-> end_time, data |-> data]

\* The fields reset() assigns.
reset ==
    [current_frame_type          |-> "None",
     current_frame_start_time    |-> None,
     current_frame_command_id    |-> None,
     current_controller_mode     |-> None,
     current_frame_command_bytes |-> <<>>,
     current_frame_data_bytes    |-> <<>>,
     current_frame_index         |-> 0]

\* __init__, and no frame delivered yet.
Init ==
    /\ current_frame_type = reset.current_frame_type
    /\ current_frame_start_time = reset.current_frame_start_time
    /\ current_frame_command_id = reset.current_frame_command_id
    /\ current_controller_mode = reset.current_controller_mode
    /\ current_frame_command_bytes = reset.current_frame_command_bytes
    /\ current_frame_data_bytes = reset.current_frame_data_bytes
    /\ current_frame_index = reset.current_frame_index
    /\ returned = ReturnNone
    /\ h_event = "init"
    /\ h_started = FALSE
    /\ h_abandoned = FALSE
    /\ h_ended_before = FALSE
    /\ h_start_time = None
    /\ h_end_time = None
    /\ h_out = <<>>
    /\ h_in = <<>>

\* A bug DecodeEnable could have: a reset that leaves the classification, the
\* command id and the mode of the transaction before.
DecodeEnable_keeps_command(start_time) ==
    /\ current_frame_start_time' = start_time
    /\ current_frame_command_bytes' = <<>>
    /\ current_frame_data_bytes' = <<>>
    /\ current_frame_index' = 0
    /\ returned' = ReturnNone
    /\ h_event' = "enable"
    /\ h_started' = TRUE
    /\ h_abandoned' = (h_started /\ Len(h_out) > 0
                          /\ ~(h_ended_before \/ h_event = "disable"))
    /\ h_ended_before' = FALSE
    /\ h_start_time' = start_time
    /\ h_end_time' = None
    /\ h_out' = <<>>
    /\ h_in' = <<>>
    /\ UNCHANGED <<current_frame_type, current_frame_command_id, current_controller_mode>>

\* frame.type == 'enable', with frame.start_time = start_time.
DecodeEnable(start_time) ==
    /\ current_frame_type' = reset.current_frame_type
    /\ current_frame_start_time' = start_time
    /\ current_frame_command_id' = reset.current_frame_command_id
    /\ current_controller_mode' = reset.current_controller_mode
    /\ current_frame_command_bytes' = reset.current_frame_command_bytes
    /\ current_frame_data_bytes' = reset.current_frame_data_bytes
    /\ current_frame_index' = 0
    /\ returned' = ReturnNone
    /\ h_event' = "enable"
    /\ h_started' = TRUE
    /\ h_abandoned' = (h_started /\ Len(h_out) > 0
                          /\ ~(h_ended_before \/ h_event = "disable"))
    /\ h_ended_before' = FALSE
    /\ h_start_time' = start_time
    /\ h_end_time' = None
    /\ h_out' = <<>>
    /\ h_in' = <<>>

\* A bug ResultFrameType could have: no lookup of the command id.
ResultFrameType_no_lookup(index, command, type) ==
    IF index = 0 /\ command # 1 THEN "invalid-packet"
    ELSE IF index = 1 THEN "valid-command"
    ELSE type

\* A bug ResultFrameType could have: the command looked up at every index
\* from 1 on ("elif index >= 1").
ResultFrameType_every_index(index, command, type) ==
    IF index = 0 /\ command # 1 THEN "invalid-packet"
    ELSE IF index >= 1
         THEN IF command \notin DOMAIN COMMAND_METADATA
              THEN "invalid-command"
              ELSE "valid-command"
         ELSE type

\* The classification a 'result' frame leaves: the if / elif of lines 138-147.
ResultFrameType(index, command, type) ==
    IF index = 0 /\ command # 1 THEN "invalid-packet"
    ELSE IF index = 1
         THEN IF command \notin DOMAIN COMMAND_METADATA
              THEN "invalid-command"
              ELSE "valid-command"
         ELSE type

\* A bug DecodeResult could have: the bytes of a transaction found to be an
\* invalid packet at index 0 dropped, and only counted.
DecodeResult_drops_invalid(command, data) ==
    /\ current_frame_type' =
           IF current_frame_index = 0 /\ command # 1 THEN "invalid-packet"
           ELSE IF current_frame_index = 1
                THEN IF command \notin DOMAIN COMMAND_METADATA
                     THEN "invalid-command" ELSE "valid-command"
                ELSE current_frame_type
    /\ current_frame_command_id' =
           IF current_frame_index = 1 THEN command ELSE current_frame_command_id
    /\ current_controller_mode' =
           IF current_frame_index = 1 THEN data ELSE current_controller_mode
    /\ current_frame_command_bytes' =
           IF current_frame_index = 0 /\ command # 1 THEN current_frame_command_bytes
           ELSE Append(current_frame_command_bytes, command)
    /\ current_frame_data_bytes' =
           IF current_frame_index = 0 /\ command # 1 THEN current_frame_data_bytes
           ELSE Append(current_frame_data_bytes, data)
    /\ current_frame_index' = current_frame_index + 1
    /\ returned' = ReturnNone
    /\ h_event' = "result"
    /\ h_out' = Append(h_out, command)
    /\ h_in' = Append(h_in, data)
    /\ h_ended_before' = (h_ended_before \/ h_event = "disable")
    /\ h_end_time' = None
    /\ UNCHANGED <<current_frame_start_time, h_started, h_abandoned, h_start_time>>

\* frame.type == 'result', with mosi = command and miso = data.
DecodeResult(command, data) ==
    /\ current_frame_type' =
           ResultFrameType(current_frame_index, command, current_frame_type)
    /\ current_frame_command_id' =
           IF ~(current_frame_index = 0 /\ command # 1) /\ current_frame_index = 1
           THEN command ELSE current_frame_command_id
    /\ current_controller_mode' =
           IF ~(current_frame_index = 0 /\ command # 1) /\ current_frame_index = 1
           THEN data ELSE current_controller_mode
    /\ current_frame_command_bytes' = Append(current_frame_command_bytes, command)
    /\ current_frame_data_bytes' = Append(current_frame_data_bytes, data)
    /\ current_frame_index' = current_frame_index + 1
    /\ returned' = ReturnNone
    /\ h_event' = "result"
    /\ h_out' = Append(h_out, command)
    /\ h_in' = Append(h_in, data)
    /\ h_ended_before' = (h_ended_before \/ h_event = "disable")
    /\ h_end_time' = None
    /\ UNCHANGED <<current_frame_start_time, h_started, h_abandoned, h_start_time>>

\* try: generator(command_bytes, data_bytes) / except: '(error)'
TryGenerator(generator, command_bytes, data_bytes) ==
    LET r == CallGenerator(generator, command_bytes, data_bytes)
    IN  IF r.ok THEN r.val ELSE "(error)"

\* A bug DisableFrame could have: the span starting at the end marker.
DisableFrame_span_from_end(type, start_time, end_time, mode, command_metadata, command_details, data_details) ==
    IF mode = None THEN DecodeRaised
    ELSE AnalyzerFrame(type, end_time, end_time,
             [mode_string     |-> ModeNamesGet(mode),
              mode_id         |-> Hex02(mode),
              command_name    |-> command_metadata.name,
              command_id      |-> Hex02(command_metadata.id),
              command_details |-> IF command_details # ""
                                  THEN " - " \o command_details
                                  ELSE "",
              data_details    |-> IF data_details # "" THEN data_details ELSE ""])

\* The return statement of lines 166-173.  '%02X' % None raises TypeError,
\* outside any try.
DisableFrame(type, start_time, end_time, mode, command_metadata, command_details, data_details) ==
    IF mode = None THEN DecodeRaised
    ELSE AnalyzerFrame(type, start_time, end_time,
             [mode_string     |-> ModeNamesGet(mode),
              mode_id         |-> Hex02(mode),
              command_name    |-> command_metadata.name,
              command_id      |-> Hex02(command_metadata.id),
              command_details |-> IF command_details # ""
                                  THEN " - " \o command_details
                                  ELSE "",
              data_details    |-> IF data_details # "" THEN data_details ELSE ""])

\* A bug DisableReturn could have: no annotation for a mode byte that
\* MODE_NAMES does not hold.
DisableReturn_known_modes_only(type, start_time, command_id, mode, command_bytes, data_bytes, end_time) ==
    IF start_time # None /\ type = "valid-command" /\ mode \in DOMAIN MODE_NAMES
    THEN IF command_id \notin DOMAIN COMMAND_METADATA THEN DecodeRaised
         ELSE DisableFrame(type, start_time, end_time, mode,
                  COMMAND_METADATA[command_id],
                  TryGenerator(COMMAND_METADATA[command_id].command_details_generator,
                               command_bytes, data_bytes),
                  TryGenerator(COMMAND_METADATA[command_id].data_details_generator,
                               command_bytes, data_bytes))
    ELSE ReturnNone

\* A bug DisableReturn could have: no test of the classification.
DisableReturn_no_type_test(type, start_time, command_id, mode, command_bytes, data_bytes, end_time) ==
    IF start_time # None
    THEN IF command_id \notin DOMAIN COMMAND_METADATA THEN DecodeRaised
         ELSE DisableFrame(type, start_time, end_time, mode,
                  COMMAND_METADATA[command_id],
                  TryGenerator(COMMAND_METADATA[command_id].command_details_generator,
                               command_bytes, data_bytes),
                  TryGenerator(COMMAND_METADATA[command_id].data_details_generator,
                               command_bytes, data_bytes))
    ELSE ReturnNone

\* A bug DisableReturn could have: no test of the start time.
DisableReturn_no_start_test(type, start_time, command_id, mode, command_bytes, data_bytes, end_time) ==
    IF type = "valid-command"
    THEN IF command_id \notin DOMAIN COMMAND_METADATA THEN DecodeRaised
         ELSE DisableFrame(type, start_time, end_time, mode,
                  COMMAND_METADATA[command_id],
                  TryGenerator(COMMAND_METADATA[command_id].command_details_generator,
                               command_bytes, data_bytes),
                  TryGenerator(COMMAND_METADATA[command_id].data_details_generator,
                               command_bytes, data_bytes))
    ELSE ReturnNone

\* A bug DisableReturn could have: one try around both generators, so that a
\* fault of either gives '(error)' for both fields.
DisableReturn_one_try(type, start_time, command_id, mode, command_bytes, data_bytes, end_time) ==
    IF start_time # None /\ type = "valid-command"
    THEN IF command_id \notin DOMAIN COMMAND_METADATA THEN DecodeRaised
         ELSE LET command_metadata == COMMAND_METADATA[command_id]
                  c == CallGenerator(command_metadata.command_details_generator,
                                     command_bytes, data_bytes)
                  d == CallGenerator(command_metadata.data_details_generator,
                                     command_bytes, data_bytes)
              IN  DisableFrame(type, start_time, end_time, mode, command_metadata,
                               IF c.ok /\ d.ok THEN c.val ELSE "(error)",
                               IF c.ok /\ d.ok THEN d.val ELSE "(error)")
    ELSE ReturnNone

\* A bug DisableReturn could have: no try around the generators, so that a
\* fault of either leaves decode as an exception.
DisableReturn_no_try(type, start_time, command_id, mode, command_bytes, data_bytes, end_time) ==
    IF start_time # None /\ type = "valid-command"
    THEN IF command_id \notin DOMAIN COMMAND_METADATA THEN DecodeRaised
         ELSE LET command_metadata == COMMAND_METADATA[command_id]
                  c == CallGenerator(command_metadata.command_details_generator,
                                     command_bytes, data_bytes)
                  d == CallGenerator(command_metadata.data_details_generator,
                                     command_bytes, data_bytes)
              IN  IF ~c.ok \/ ~d.ok THEN DecodeRaised
                  ELSE DisableFrame(type, start_time, end_time, mode,
                                    command_metadata, c.val, d.val)
    ELSE ReturnNone

\* The 'disable' branch of decode: lines 152-175.  COMMAND_METADATA[id]
\* raises KeyError for an id that is no key, outside any try.
DisableReturn(type, start_time, command_id, mode, command_bytes, data_bytes, end_time) ==
    IF start_time # None /\ type = "valid-command"
    THEN IF command_id \notin DOMAIN COMMAND_METADATA THEN DecodeRaised
         ELSE LET command_metadata == COMMAND_METADATA[command_id]
                  command_details ==
                      TryGenerator(command_metadata.command_details_generator,
                                   command_bytes, data_bytes)
                  data_details ==
                      TryGenerator(command_metadata.data_details_generator,
                                   command_bytes, data_bytes)
              IN  DisableFrame(type, start_time, end_time, mode, command_metadata,
                               command_details, data_details)
    ELSE ReturnNone

\* A bug the 'disable' branch could have: a generator that takes the bytes it
\* reads off the console list (pop) instead of indexing it.
DecodeDisable_consumes(end_time) ==
    /\ returned' = DisableReturn(current_frame_type, current_frame_start_time,
                                 current_frame_command_id, current_controller_mode,
                                 current_frame_command_bytes, current_frame_data_bytes,
                                 end_time)
    /\ current_frame_command_bytes' =
           IF current_frame_start_time # None /\ current_frame_type = "valid-command"
              /\ Len(current_frame_command_bytes) > 3
           THEN SubSeq(current_frame_command_bytes, 1, 3)
           ELSE current_frame_command_bytes
    /\ h_event' = "disable"
    /\ h_ended_before' = (h_ended_before \/ h_event = "disable")
    /\ h_end_time' = end_time
    /\ UNCHANGED <<current_frame_type, current_frame_start_time,
                   current_frame_command_id, current_controller_mode,
                   current_frame_data_bytes, current_frame_index,
                   h_started, h_abandoned, h_start_time, h_out, h_in>>

\* frame.type == 'disable', with frame.end_time = end_time.
DecodeDisable(end_time) ==
    /\ returned' = DisableReturn(current_frame_type, current_frame_start_time,
                                 current_frame_command_id, current_controller_mode,
                                 current_frame_command_bytes, current_frame_data_bytes,
                                 end_time)
    /\ h_event' = "disable"
    /\ h_ended_before' = (h_ended_before \/ h_event = "disable")
    /\ h_end_time' = end_time
    /\ UNCHANGED <<hla, h_started, h_abandoned, h_start_time, h_out, h_in>>

\* Any other frame type (the SPI analyzer's 'error'): decode returns None.
DecodeOther ==
    /\ returned' = ReturnNone
    /\ h_event' = "other"
    /\ h_ended_before' = (h_ended_before \/ h_event = "disable")
    /\ h_end_time' = None
    /\ UNCHANGED <<hla, h_started, h_abandoned, h_start_time, h_out, h_in>>

\* ---------------------------------------------------------------- the host

Times == 1 .. MaxTime

\* The frames of the host, with the byte pairs of 'result' frames drawn from
\* Console[i] and Device[i], i the position since the last start marker; no
\* more than MaxLen byte pairs are delivered without a new start marker.
HostNext(Console, Device) ==
    \/ \E t \in Times : DecodeEnable(t)
    \/ /\ Len(h_out) < MaxLen
       /\ \E c \in Console[Len(h_out)], d \in Device[Len(h_out)] : DecodeResult(c, d)
    \/ \E t \in Times : DecodeDisable(t)
    \/ DecodeOther

\* Any host.  The byte pairs are, by position, the values the analyzer tells
\* apart there: position 0 is the header (1) or not; position 1 is a command
\* id, registered (64 .. 79 but 72 .. 75, 78) or not, with the device's mode;
\* positions 3 and 4 are the arguments and button masks the generators read;
\* no code reads the other positions (position 2 may repeat a command id).
ConsoleAt == [i \in 0 .. MaxLen |->
    CASE i = 0 -> {0, 1, 66}
      [] i = 1 -> {1, 64, 65, 66, 67, 68, 69, 70, 71, 76, 77, 79, 80}
      [] i = 2 -> {0, 66}
      [] i = 3 -> {0, 1, 255}
      [] i = 4 -> {0, 3, 64}
      [] OTHER -> {0}]

DeviceAt == [i \in 0 .. MaxLen |->
    CASE i = 1 -> {65, 243, 0}
      [] i = 3 -> {254, 255}
      [] i = 4 -> {255, 127}
      [] OTHER -> {255}]

Next == HostNext(ConsoleAt, DeviceAt)

Spec == Init /\ [][Next]_vars

\* A host that sends the header and the commands whose generators read the
\* transaction (Main Polling, Enter/Exit Config Mode, Switch Analog/Digital
\* Mode), with more values of the arguments, modes and button masks.
WellFormedConsoleAt == [i \in 0 .. MaxLen |->
    CASE i = 0 -> {1}
      [] i = 1 -> {66, 67, 68}
      [] i = 3 -> {0, 1, 255}
      [] i = 4 -> {0, 3, 63, 64}
      [] OTHER -> {0}]

WellFormedDeviceAt == [i \in 0 .. MaxLen |->
    CASE i = 1 -> {65, 115, 121, 243, 0}
      [] i = 3 -> {255, 254, 127, 239, 0}
      [] i = 4 -> {255, 254, 127, 0}
      [] OTHER -> {255}]

WellFormedNext == HostNext(WellFormedConsoleAt, WellFormedDeviceAt)

WellFormedSpec == Init /\ [][WellFormedNext]_vars

\* ------------------------------------------------------------------ claims

\* The last frame was the end marker of a transaction: a start marker, byte
\* pairs only, and this end marker.
TransactionEnd == h_event = "disable" /\ h_started /\ ~h_ended_before

\* The keys of the Command Registry.
RegisteredIds == {64, 65, 66, 67, 68, 69, 70, 71, 76, 77, 79}

Emitted == returned.kind = "AnalyzerFrame"

\* C1, as claimed: the end marker of a transaction whose first console byte
\* is not the header 0x01 emits no annotation, whatever follows.  The code
\* does not keep it: at index 1 the elif of line 140 classifies again, and a
\* registered id there makes the transaction a valid command.
C1_InvalidHeaderIsSilent ==
    (TransactionEnd /\ Len(h_out) >= 1 /\ h_out[1] # 1) => returned = ReturnNone

\* C2: the end marker of a transaction whose console byte 0 is 0x01 and whose
\* console byte 1 is no key of the Command Registry emits no annotation.
C2_UnknownCommandIsSilent ==
    (TransactionEnd /\ Len(h_out) >= 2 /\ h_out[1] = 1 /\ h_out[2] \notin RegisteredIds)
        => returned = ReturnNone

C2_Witness ==
    /\ TransactionEnd /\ Len(h_out) = MaxLen
    /\ h_out[1] = 1 /\ h_out[2] = 80
    /\ current_frame_type = "invalid-command"

\* C3: the end marker of a transaction with console byte 0 = 0x01 and a
\* registered id as console byte 1 emits one annotation, with the id and name
\* of console byte 1, the mode of device byte 1, and the span from the last
\* start marker's timestamp to this end marker's.
C3_ValidCommandAnnotation ==
    (TransactionEnd /\ Len(h_out) >= 2 /\ h_out[1] = 1 /\ h_out[2] \in RegisteredIds)
        => /\ Emitted
           /\ returned.type = "valid-command"
           /\ returned.data.command_id = Hex02(h_out[2])
           /\ returned.data.command_name = COMMAND_METADATA[h_out[2]].name
           /\ returned.data.mode_id = Hex02(h_in[2])
           /\ returned.start_time = h_start_time
           /\ returned.end_time = h_end_time

C3_Witness ==
    /\ TransactionEnd /\ Len(h_out) = 2
    /\ h_out = <<1, 67>> /\ h_in[2] = 243
    /\ Emitted
    /\ returned.data.command_id = "43"
    /\ returned.data.command_name = "Enter/Exit Config Mode"
    /\ returned.data.mode_id = "F3"
    /\ returned.start_time = 1 /\ returned.end_time = 2

\* C4, as claimed: once an end marker has been processed, no end marker
\* emits an annotation until a new start marker.  The code does not keep it:
\* the 'disable' branch resets nothing, so a second end marker emits the
\* annotation again.
C4_NoAnnotationAfterEnd ==
    (h_event = "disable" /\ h_ended_before) => returned = ReturnNone

\* C5: from construction, no frame emits an annotation before the first
\* start marker, whatever byte pairs came.
C5_NoStartNoAnnotation ==
    ~h_started => returned = ReturnNone

C5_Witness ==
    /\ ~h_started /\ h_event = "disable"
    /\ Len(h_out) = MaxLen /\ h_out[1] = 1 /\ h_out[2] = 66
    /\ current_frame_type = "valid-command"

\* The offsets the command-side and the data-side renderer of a command read.
CommandOffsets(id) ==
    CASE id \in {66, 68, 77} -> {3, 4}
      [] id \in {67, 70, 76} -> {3}
      [] OTHER -> {}

DataOffsets(id, mode) ==
    CASE id = 66 -> {3, 4}
      [] id = 67 -> IF mode = 243 THEN {1} ELSE {1, 3, 4}
      [] OTHER -> {}

\* n byte pairs are fewer than a renderer reading these offsets needs.
TooShort(offsets, n) == \E i \in offsets : i >= n

\* C6: an end marker finalizing a valid command still emits the annotation
\* when the sequences are shorter than an offset a renderer reads; each
\* detail field is "(error)" (behind the separator, for the command side)
\* exactly when its own renderer faults, and else what its own renderer gives.
C6_FaultsAreIndependent ==
    (h_event = "disable" /\ h_started /\ Len(h_out) >= 2
        /\ h_out[1] = 1 /\ h_out[2] \in RegisteredIds)
        => /\ Emitted
           /\ LET meta == COMMAND_METADATA[h_out[2]]
                  c == CallGenerator(meta.command_details_generator, h_out, h_in)
                  d == CallGenerator(meta.data_details_generator, h_out, h_in)
                  cShort == TooShort(CommandOffsets(h_out[2]), Len(h_out))
                  dShort == TooShort(DataOffsets(h_out[2], h_in[2]), Len(h_in))
              IN  /\ c.ok = ~cShort
                  /\ d.ok = ~dShort
                  /\ returned.data.command_details =
                         IF cShort THEN " - (error)"
                         ELSE IF c.val = "" THEN "" ELSE " - " \o c.val
                  /\ returned.data.data_details =
                         IF dShort THEN "(error)" ELSE d.val

\* Enter/Exit Config Mode cut after 4 byte pairs: the command side reads
\* offset 3 and succeeds, the data side reads offset 4 and faults.
C6_Witness ==
    /\ h_event = "disable" /\ h_started
    /\ Len(h_out) = 4 /\ h_out[1] = 1 /\ h_out[2] = 67 /\ h_out[4] = 1
    /\ h_in[2] = 65
    /\ Emitted
    /\ returned.data.command_details = " - Enter"
    /\ returned.data.data_details = "(error)"

\* C7: no frame, in any order, leaves decode as an exception: each yields
\* None or one annotation.
C7_NoExceptionReachesHost ==
    returned.kind \in {"None", "AnalyzerFrame"}

\* Main Polling cut after 2 byte pairs: both renderers fault.
C7_Witness ==
    /\ h_event = "disable" /\ Len(h_out) = 2 /\ h_out[2] = 66
    /\ Emitted
    /\ returned.data.command_details = " - (error)"
    /\ returned.data.data_details = "(error)"

\* The 16 buttons, by bit of the mask.
ButtonOfBit ==
    <<"Select", "L3", "R3", "Start", "D-Up", "D-Right", "D-Down", "D-Left",
      "L2", "R2", "L1", "R1", "Triangle", "Circle", "Cross", "Square">>

\* The buttons whose bit, from bit k up, is 0 in the 16-bit mask.
RECURSIVE PressedFrom(_, _)
PressedFrom(mask, k) ==
    IF k = 16 THEN <<>>
    ELSE (IF (mask \div (2 ^ k)) % 2 = 0 THEN <<ButtonOfBit[k + 1]>> ELSE <<>>)
         \o PressedFrom(mask, k + 1)

\* A non-empty list of names, separated by ", ".
RECURSIVE ListText(_)
ListText(l) ==
    IF Len(l) = 1 THEN l[1]
    ELSE ListText(SubSeq(l, 1, Len(l) - 1)) \o ", " \o l[Len(l)]

\* A Main Polling transaction of at least 5 byte pairs was finalized.
MainPollingEnd ==
    /\ h_event = "disable" /\ h_started
    /\ Len(h_out) >= 5 /\ h_out[1] = 1 /\ h_out[2] = 66

\* C8: for a Main Polling transaction of at least 5 byte pairs, the data
\* detail lists the buttons whose bit is 0 in the mask device byte 3 +
\* 256 * device byte 4, in bit order; it is "(no buttons)" exactly when both
\* bytes are 0xFF; no other byte has a part in it.
C8_MainPollingButtons ==
    MainPollingEnd
        => /\ Emitted
           /\ LET pressed == PressedFrom(h_in[4] + 256 * h_in[5], 0)
              IN  returned.data.data_details =
                      IF pressed = <<>> THEN "(no buttons)" ELSE ListText(pressed)
           /\ (returned.data.data_details = "(no buttons)")
                  <=> (h_in[4] = 255 /\ h_in[5] = 255)

C8_Witness ==
    /\ MainPollingEnd
    /\ h_in[4] = 239 /\ h_in[5] = 127
    /\ returned.data.data_details = "D-Up, Square"

\* C9: for an Enter/Exit Config Mode transaction the data detail is
\* "(no data)" whenever device byte 1 is 0xF3, whatever device bytes 3 and 4
\* are and whether they came; else it is what the Main Polling data renderer
\* gives for the same sequences, "(error)" with fewer than 5 byte pairs.
C9_ConfigModeData ==
    (h_event = "disable" /\ h_started /\ Len(h_out) >= 2
        /\ h_out[1] = 1 /\ h_out[2] = 67)
        => /\ Emitted
           /\ returned.data.data_details =
                  IF h_in[2] = 243 THEN "(no data)"
                  ELSE IF Len(h_in) < 5 THEN "(error)"
                  ELSE LET pressed == PressedFrom(h_in[4] + 256 * h_in[5], 0)
                       IN  IF pressed = <<>> THEN "(no buttons)" ELSE ListText(pressed)
           /\ h_in[2] # 243 =>
                  returned.data.data_details =
                      TryGenerator("cmd42_data_details", h_out, h_in)

C9_Witness ==
    /\ h_event = "disable" /\ h_started
    /\ Len(h_out) >= 5 /\ h_out[1] = 1 /\ h_out[2] = 67
    /\ h_in[2] = 243 /\ h_in[4] = 254 /\ h_in[5] = 127
    /\ returned.data.data_details = "(no data)"

\* C10: for a Switch Analog/Digital Mode transaction of at least 5 byte
\* pairs, the command detail names Analog exactly when console byte 3 is
\* 0x01, and Digital otherwise, and ends in "(Locked)" exactly when console
\* byte 4 is 0x03.
C10_SwitchModeDetail ==
    (h_event = "disable" /\ h_started /\ Len(h_out) >= 5
        /\ h_out[1] = 1 /\ h_out[2] = 68)
        => /\ Emitted
           /\ returned.data.command_details =
                  CASE h_out[4] = 1 /\ h_out[5] = 3 -> " - Set Analog (Locked)"
                    [] h_out[4] = 1 /\ h_out[5] # 3 -> " - Set Analog"
                    [] h_out[4] # 1 /\ h_out[5] = 3 -> " - Set Digital (Locked)"
                    [] h_out[4] # 1 /\ h_out[5] # 3 -> " - Set Digital"

C10_Witness ==
    /\ h_event = "disable" /\ h_started /\ Len(h_out) >= 5
    /\ h_out[1] = 1 /\ h_out[2] = 68 /\ h_out[4] = 1 /\ h_out[5] = 3
    /\ returned.data.command_details = " - Set Analog (Locked)"

\* C11: the mode label of an annotation is Digital, Analog, Analog with
\* Pressure or Configuration for device byte 1 = 0x41, 0x73, 0x79 or 0xF3,
\* and "Unknown Mode" for any other value; an unknown mode byte does not
\* keep the annotation of a valid command from being emitted.
C11_ModeLabel ==
    (h_event = "disable" /\ h_started /\ Len(h_out) >= 2
        /\ h_out[1] = 1 /\ h_out[2] \in RegisteredIds)
        => /\ Emitted
           /\ returned.data.mode_string =
                  CASE h_in[2] = 65  -> "Digital"
                    [] h_in[2] = 115 -> "Analog"
                    [] h_in[2] = 121 -> "Analog with Pressure"
                    [] h_in[2] = 243 -> "Configuration"
                    [] OTHER         -> "Unknown Mode"

C11_Witness ==
    /\ h_event = "disable" /\ h_started /\ Len(h_out) >= 2
    /\ h_out[1] = 1 /\ h_out[2] = 66 /\ h_in[2] = 0
    /\ Emitted
    /\ returned.data.mode_string = "Unknown Mode"
    /\ returned.data.mode_id = "00"

\* C12: in every reachable state the console byte sequence and the device
\* byte sequence have the same length, which is the byte index counter.
C12_SequencesInStep ==
    /\ Len(current_frame_command_bytes) = Len(current_frame_data_bytes)
    /\ Len(current_frame_command_bytes) = current_frame_index

\* Byte pairs before any start marker, an end marker, and more byte pairs.
C12_Witness ==
    /\ ~h_started /\ h_ended_before /\ h_event = "result"
    /\ h_out[1] # 1
    /\ current_frame_index = MaxLen
    /\ Len(current_frame_command_bytes) = MaxLen
    /\ Len(current_frame_data_bytes) = MaxLen

\* C13: once the byte pair at index 1 has been processed, the classification
\* is one of invalid-packet, invalid-command and valid-command, and no frame
\* but a start marker changes it.
C13_ClassificationSettledAtIndex1 ==
    [][ /\ Len(h_out') >= 2 =>
               current_frame_type' \in {"invalid-packet", "invalid-command", "valid-command"}
        /\ (Len(h_out) >= 2 /\ h_event' # "enable") =>
               current_frame_type' = current_frame_type ]_vars

\* An unregistered id at index 1, a registered id at index 2, byte pairs up to
\* the bound and an end marker: still an invalid command.
C13_Witness ==
    /\ h_started /\ h_event = "disable"
    /\ Len(h_out) = MaxLen /\ h_out[1] = 1 /\ h_out[2] = 80 /\ h_out[3] = 66
    /\ current_frame_type = "invalid-command"

\* C14, as claimed: a transaction classified invalid-packet at index 0 stays
\* invalid-packet through every later byte pair until the next start marker,
\* while the bytes go on being appended.  The code does not keep it: the byte
\* pair at index 1 runs the elif of line 140 and classifies again.
C14_InvalidPacketStays ==
    (h_started /\ Len(h_out) >= 1 /\ h_out[1] # 1)
        => /\ current_frame_type = "invalid-packet"
           /\ current_frame_command_bytes = h_out
           /\ current_frame_data_bytes = h_in

\* C15: a start marker, in whatever state it arrives, empties both byte
\* sequences, zeroes the index, clears classification, command id and mode,
\* and records its timestamp; so the analyzer holds the byte pairs that came
\* since the last start marker and no others, and an annotation is what
\* those byte pairs alone give: a transaction cut short by a new start
\* marker has no part in it.
C15_StartMarkerResets ==
    /\ h_event = "enable" =>
           /\ current_frame_type = "None"
           /\ current_frame_command_id = None
           /\ current_controller_mode = None
           /\ current_frame_command_bytes = <<>>
           /\ current_frame_data_bytes = <<>>
           /\ current_frame_index = 0
           /\ current_frame_start_time = h_start_time
           /\ returned = ReturnNone
    /\ h_started =>
           /\ current_frame_command_bytes = h_out
           /\ current_frame_data_bytes = h_in
           /\ current_frame_start_time = h_start_time
    /\ Emitted =>
           /\ Len(h_out) >= 2
           /\ returned = DisableReturn("valid-command", h_start_time, h_out[2], h_in[2],
                                       h_out, h_in, h_end_time)

\* A transaction cut short by a start marker, then a valid command finalized.
C15_Witness ==
    /\ h_abandoned /\ TransactionEnd
    /\ Emitted
    /\ Len(h_out) = 2

\* C16: the end marker of a transaction of fewer than two byte pairs emits
\* no annotation, even when the one console byte is the header 0x01: the
\* classification is still none, or invalid-packet, and no command id has
\* been recorded.
C16_ShortTransactionIsSilent ==
    (TransactionEnd /\ Len(h_out) < 2)
        => /\ returned = ReturnNone
           /\ current_frame_type = (IF Len(h_out) = 1 /\ h_out[1] # 1
                                    THEN "invalid-packet" ELSE "None")
           /\ current_frame_command_id = None

C16_Witness ==
    /\ TransactionEnd
    /\ h_out = <<1>>
    /\ current_frame_type = "None"
    /\ returned = ReturnNone

\* C17: for a Main Polling transaction of at least 5 byte pairs, the command
\* detail is empty, with no separator, exactly when console bytes 3 and 4
\* are both zero; else it gives the small motor as (byte 3 = 0xFF) and the
\* large motor as (byte 4 >= 0x40).
C17_MainPollingMotors ==
    MainPollingEnd
        => /\ Emitted
           /\ returned.data.command_details =
                  CASE h_out[4] = 0 /\ h_out[5] = 0 -> ""
                    [] h_out[4] = 255 /\ h_out[5] >= 64 ->
                           " - Small Motor True, Large Motor True"
                    [] h_out[4] = 255 /\ h_out[5] < 64 ->
                           " - Small Motor True, Large Motor False"
                    [] h_out[4] # 255 /\ h_out[5] >= 64 ->
                           " - Small Motor False, Large Motor True"
                    [] OTHER ->
                           " - Small Motor False, Large Motor False"
           /\ (returned.data.command_details = "")
                  <=> (h_out[4] = 0 /\ h_out[5] = 0)

C17_Witness ==
    /\ MainPollingEnd
    /\ h_out[4] = 255 /\ h_out[5] = 64
    /\ returned.data.command_details = " - Small Motor True, Large Motor True"

\* C18: an end marker, whether its generators fault or not, leaves the
\* console and the device byte sequences as they were; and an end marker
\* right after an end marker that emitted resolves the same sequences again
\* and emits the same fields.
C18_ResolvingIsPure ==
    [][ h_event' = "disable" =>
            /\ current_frame_command_bytes' = current_frame_command_bytes
            /\ current_frame_data_bytes' = current_frame_data_bytes
            /\ (h_event = "disable" /\ Emitted) =>
                   /\ returned'.kind = "AnalyzerFrame"
                   /\ returned'.data = returned.data ]_vars

\* Switch Analog/Digital Mode cut after 4 byte pairs, finalized a second
\* time: the command side faults again, the sequences are whole.
C18_Witness ==
    /\ h_event = "disable" /\ h_ended_before /\ h_started
    /\ Len(h_out) = 4 /\ h_out[1] = 1 /\ h_out[2] = 68
    /\ current_frame_command_bytes = h_out
    /\ current_frame_data_bytes = h_in
    /\ Emitted
    /\ returned.data.command_details = " - (error)"
    /\ returned.data.data_details = "(...)"

\* C19: whether an end marker emits an annotation, and the command name and
\* id it carries, are a function of the markers (a start marker came, two
\* byte pairs came since the last one) and of the console byte at index 1:
\* no device byte and no byte pair at index 2 or later has a part in it.  Two
\* runs with the same markers and the same console bytes at indices 0 and 1
\* thus emit at the same end markers, with the same command name and id.
C19_EmissionDependsOnCommandOnly ==
    h_event = "disable"
        => /\ Emitted <=> (h_started /\ Len(h_out) >= 2 /\ h_out[2] \in RegisteredIds)
           /\ ~Emitted => returned = ReturnNone
           /\ Emitted =>
                  /\ returned.data.command_id = Hex02(h_out[2])
                  /\ returned.data.command_name = COMMAND_METADATA[h_out[2]].name

\* A valid command with an unknown mode byte and a command id repeated at
\* index 2, up to the bound.
C19_Witness ==
    /\ h_event = "disable" /\ h_started
    /\ Len(h_out) = MaxLen /\ h_out[1] = 1 /\ h_out[2] = 77 /\ h_out[3] = 66
    /\ h_in[2] = 0
    /\ Emitted
    /\ returned.data.command_id = "4D"
    /\ returned.data.command_name = "Map Rumble Motors"

=============================================================================
